---- MODULE Spec2Model ----
(***************************************************************************)
(* Pulse: the issue store (IssueRepository over the SQLite table issues)   *)
(* and the HTTP handlers of internal/server that create, update, move and  *)
(* delete issues, compute metrics and search.  One action per handler,     *)
(* its repository calls included; where handlers run concurrently, one     *)
(* action per repository call of a handler.                                *)
(***************************************************************************)
EXTENDS Integers, Sequences, FiniteSets, TLC

VARIABLES
    issues,      \* table issues: id -> row (the domain is the set of stored ids)
    workspaces,  \* table workspaces: the set of stored workspace ids
    now,         \* the latest reading of time.Now()
    last,        \* the latest request: its input, the row it found, its response
    inflight     \* the handlers between two of their repository calls: slot -> locals

vars == <<issues, workspaces, now, last, inflight>>

----------------------------------------------------------------------------
(* Bounds *)

\* time.Now() is read at most MaxTime times: its readings are 1..MaxTime
MaxTime == 5

----------------------------------------------------------------------------
(* Values *)

\* SQL NULL / Go nil pointer; a set value is the one-element sequence <<t>>
Null == <<>>

Some(t) == <<t>>

\* the five workflow states of an issue
Statuses == {"backlog", "todo", "in_progress", "done", "canceled"}

\* HTTP response codes written by the handlers
StatusOK == 200
StatusNoContent == 204
StatusBadRequest == 400
StatusNotFound == 404
StatusInternalServerError == 500

\* a handler that panics writes no response: net/http aborts the connection
Aborted == 0

\* JSON values as encoding/json decodes them into interface{}:
\* string, float64 (n counts tenths: 25 is 2.5) and []interface{}
JString(s) == [t |-> "string", s |-> s, n |-> 0, a |-> <<>>]

JNumber(n) == [t |-> "number", s |-> "", n |-> n, a |-> <<>>]

JArray(a) == [t |-> "array", s |-> "", n |-> 0, a |-> a]

\* Go int(float64): truncation toward zero (n counts tenths)
ToInt(n) == IF n >= 0 THEN n \div 10 ELSE -((-n) \div 10)

\* a Go []string: nil, or a slice with elements
NilSlice == [nil |-> TRUE, elems |-> <<>>]

Slice(s) == [nil |-> FALSE, elems |-> s]

\* json.Marshal of a []string, as a token sequence: null, or [ e1 ... en ]
Marshal(l) == IF l.nil THEN <<"null">> ELSE <<"[">> \o l.elems \o <<"]">>

\* json.Unmarshal of the labels column into a zero []string
Unmarshal(txt) ==
    IF txt = <<"null">> THEN NilSlice
    ELSE Slice(SubSeq(txt, 2, Len(txt) - 1))

\* the reading time.Now() returns after the reading t: successive readings
\* increase, and no reading lies beyond MaxTime
Ticks(t) == {u \in {t + 1} : u <= MaxTime}

----------------------------------------------------------------------------
(* internal/db: IssueRepository over the table issues *)

\* IssueRepository.Create: INSERT of the thirteen listed columns at time t;
\* completed_at is not listed and takes its default, NULL
IssueCreate(tbl, issue, t) ==
    LET row == [id           |-> issue.ID,
                workspace_id |-> issue.WorkspaceID,
                title        |-> issue.Title,
                description  |-> issue.Description,
                status       |-> issue.Status,
                priority     |-> issue.Priority,
                assignee_id  |-> issue.AssigneeID,
                estimate     |-> issue.Estimate,
                cycle_id     |-> issue.CycleID,
                labels       |-> Marshal(issue.Labels),
                parent_id    |-> issue.ParentID,
                created_at   |-> t,
                updated_at   |-> t,
                completed_at |-> Null]
    IN  [i \in DOMAIN tbl \cup {issue.ID} |-> IF i = issue.ID THEN row ELSE tbl[i]]

\* ScanIssue without the scan of completed_at: CompletedAt stays nil
ScanIssueNoCompletedAt(row) ==
    [ID          |-> row.id,
     WorkspaceID |-> row.workspace_id,
     Title       |-> row.title,
     Description |-> row.description,
     Status      |-> row.status,
     Priority    |-> row.priority,
     AssigneeID  |-> row.assignee_id,
     Estimate    |-> row.estimate,
     CycleID     |-> row.cycle_id,
     Labels      |-> Unmarshal(row.labels),
     ParentID    |-> row.parent_id,
     CreatedAt   |-> row.created_at,
     UpdatedAt   |-> row.updated_at,
     CompletedAt |-> Null]

\* the scan of one row into a db.Issue (GetByID, List)
ScanIssue(row) ==
    [ID          |-> row.id,
     WorkspaceID |-> row.workspace_id,
     Title       |-> row.title,
     Description |-> row.description,
     Status      |-> row.status,
     Priority    |-> row.priority,
     AssigneeID  |-> row.assignee_id,
     Estimate    |-> row.estimate,
     CycleID     |-> row.cycle_id,
     Labels      |-> Unmarshal(row.labels),
     ParentID    |-> row.parent_id,
     CreatedAt   |-> row.created_at,
     UpdatedAt   |-> row.updated_at,
     CompletedAt |-> row.completed_at]

\* IssueRepository.GetByID: nil when no row has the id
IssueGetByID(tbl, id) ==
    IF id \in DOMAIN tbl THEN Some(ScanIssue(tbl[id])) ELSE Null

\* an Update that stores the struct whether its row exists or not (INSERT OR
\* REPLACE): it stores an issue again after its deletion
IssueUpdateUpsert(tbl, issue, t) ==
    [i \in DOMAIN tbl \cup {issue.ID} |->
        IF i = issue.ID
        THEN [id           |-> issue.ID,
              workspace_id |-> issue.WorkspaceID,
              title        |-> issue.Title,
              description  |-> issue.Description,
              status       |-> issue.Status,
              priority     |-> issue.Priority,
              assignee_id  |-> issue.AssigneeID,
              estimate     |-> issue.Estimate,
              cycle_id     |-> issue.CycleID,
              labels       |-> Marshal(issue.Labels),
              parent_id    |-> issue.ParentID,
              created_at   |-> issue.CreatedAt,
              updated_at   |-> t,
              completed_at |-> issue.CompletedAt]
        ELSE tbl[i]]

\* IssueRepository.Update without issue.UpdatedAt = time.Now(): it writes the
\* UpdatedAt that GetByID loaded
IssueUpdateStaleUpdatedAt(tbl, issue, t) ==
    [i \in DOMAIN tbl |->
        IF i = issue.ID
        THEN [tbl[i] EXCEPT !.title        = issue.Title,
                            !.description  = issue.Description,
                            !.status       = issue.Status,
                            !.priority     = issue.Priority,
                            !.assignee_id  = issue.AssigneeID,
                            !.estimate     = issue.Estimate,
                            !.cycle_id     = issue.CycleID,
                            !.labels       = Marshal(issue.Labels),
                            !.parent_id    = issue.ParentID,
                            !.updated_at   = issue.UpdatedAt,
                            !.completed_at = issue.CompletedAt]
        ELSE tbl[i]]

\* IssueRepository.Update: UPDATE ... WHERE id = issue.ID at time t; it writes
\* the struct's CompletedAt as it stands
IssueUpdate(tbl, issue, t) ==
    [i \in DOMAIN tbl |->
        IF i = issue.ID
        THEN [tbl[i] EXCEPT !.title        = issue.Title,
                            !.description  = issue.Description,
                            !.status       = issue.Status,
                            !.priority     = issue.Priority,
                            !.assignee_id  = issue.AssigneeID,
                            !.estimate     = issue.Estimate,
                            !.cycle_id     = issue.CycleID,
                            !.labels       = Marshal(issue.Labels),
                            !.parent_id    = issue.ParentID,
                            !.updated_at   = t,
                            !.completed_at = issue.CompletedAt]
        ELSE tbl[i]]

\* IssueRepository.UpdateStatus: completed_at is now when status is "done",
\* NULL otherwise
IssueUpdateStatus(tbl, id, status, t) ==
    LET completedAt == IF status = "done" THEN Some(t) ELSE Null
    IN  [i \in DOMAIN tbl |->
            IF i = id
            THEN [tbl[i] EXCEPT !.status       = status,
                                !.updated_at   = t,
                                !.completed_at = completedAt]
            ELSE tbl[i]]

\* IssueRepository.Delete
IssueDelete(tbl, id) == [i \in DOMAIN tbl \ {id} |-> tbl[i]]

\* WorkspaceRepository.GetByID, as the presence of the row
WorkspaceGetByID(ws, id) == id \in ws

----------------------------------------------------------------------------
(* Requests *)

\* status strings sent by clients: two of the five states, none, an unknown one
StatusInputs == {"", "todo", "done", "bogus"}

\* a JSON object with one key
Obj(k, v) == [x \in {k} |-> v]

\* the JSON object listing all nine keys handleIssue reads from a PUT body
FullBody ==
    [title       |-> JString("T"),
     description |-> JString("d"),
     status      |-> JString("todo"),
     priority    |-> JNumber(20),
     assignee_id |-> JString("u1"),
     estimate    |-> JNumber(30),
     cycle_id    |-> JString("c1"),
     parent_id   |-> JString("p1"),
     labels      |-> JArray(<<JString("bug")>>)]

\* the decoded bodies of PUT requests: the empty object, the object with every
\* key, and objects with one key: each of the nine keys with a new value, a
\* title of the wrong type, each status, a label that is not a string
PutBodies ==
    {<<>>, FullBody}
    \cup {Obj("title", v) : v \in {JString("T"), JString(""), JNumber(10)}}
    \cup {Obj("status", JString(st)) : st \in StatusInputs}
    \cup {Obj("description", JString("e")),
          Obj("priority", JNumber(10)),
          Obj("assignee_id", JString("u2")),
          Obj("estimate", JNumber(55)),
          Obj("cycle_id", JString("c2")),
          Obj("parent_id", JString("p2")),
          Obj("labels", JArray(<<JString("ux")>>)),
          Obj("labels", JArray(<<JNumber(10)>>))}

\* PUT requests: a body json.Decode rejects, or a decoded object
PutRequests ==
    {[decodable |-> FALSE, body |-> <<>>]} \cup
    {[decodable |-> TRUE, body |-> b] : b \in PutBodies}

\* PATCH requests decode into struct{Status string}; a body without status
\* decodes to the empty string
PatchRequests ==
    {[decodable |-> FALSE, Status |-> ""]} \cup
    {[decodable |-> TRUE, Status |-> st] : st \in StatusInputs}

\* the zero value of the request struct of handleIssues: a body with no field
EmptyPost ==
    [decodable |-> TRUE, WorkspaceID |-> "", Title |-> "", Description |-> "",
     Status |-> "", Priority |-> 0, AssigneeID |-> "", Labels |-> NilSlice,
     Estimate |-> 0, CycleID |-> "", ParentID |-> ""]

\* a body with every field but status
FullPost ==
    [decodable |-> TRUE, WorkspaceID |-> "default", Title |-> "T",
     Description |-> "d", Status |-> "", Priority |-> 2, AssigneeID |-> "u1",
     Labels |-> Slice(<<"bug">>), Estimate |-> 3, CycleID |-> "c1",
     ParentID |-> "p1"]

\* POST requests: a body json.Decode rejects, a body naming no stored
\* workspace, a body with only workspace_id, and bodies with every field and
\* each status
PostRequests ==
    {[EmptyPost EXCEPT !.decodable = FALSE],
     [EmptyPost EXCEPT !.WorkspaceID = "nows"],
     [EmptyPost EXCEPT !.WorkspaceID = "default"]}
    \cup {[FullPost EXCEPT !.Status = st] : st \in StatusInputs}

\* the ids requests name: those of the stored issues (issue_<UnixNano>, written
\* as the clock reading) and 0, which no issue has
RequestIds == DOMAIN issues \cup {0}

----------------------------------------------------------------------------
(* internal/server: handlers *)

\* ApplyChanges without the ok of the string assertions: a key the body does
\* not list assigns the empty string
ApplyChangesNoOk(issue, body) ==
    LET str(k, old) ==
            IF k \in DOMAIN body /\ body[k].t = "string" THEN body[k].s ELSE ""
        num(k, old) ==
            IF k \in DOMAIN body /\ body[k].t = "number" THEN ToInt(body[k].n) ELSE old
        labels ==
            IF "labels" \in DOMAIN body /\ body["labels"].t = "array"
            THEN Slice([i \in 1..Len(body["labels"].a) |-> body["labels"].a[i].s])
            ELSE issue.Labels
    IN  [issue EXCEPT !.Title       = str("title", @),
                      !.Description = str("description", @),
                      !.Status      = str("status", @),
                      !.Priority    = num("priority", @),
                      !.AssigneeID  = str("assignee_id", @),
                      !.Estimate    = num("estimate", @),
                      !.CycleID     = str("cycle_id", @),
                      !.ParentID    = str("parent_id", @),
                      !.Labels      = labels]

\* handleIssue PUT: the type-asserted assignments of the listed keys
ApplyChanges(issue, body) ==
    LET str(k, old) ==
            IF k \in DOMAIN body /\ body[k].t = "string" THEN body[k].s ELSE old
        num(k, old) ==
            IF k \in DOMAIN body /\ body[k].t = "number" THEN ToInt(body[k].n) ELSE old
        labels ==
            IF "labels" \in DOMAIN body /\ body["labels"].t = "array"
            THEN Slice([i \in 1..Len(body["labels"].a) |-> body["labels"].a[i].s])
            ELSE issue.Labels
    IN  [issue EXCEPT !.Title       = str("title", @),
                      !.Description = str("description", @),
                      !.Status      = str("status", @),
                      !.Priority    = num("priority", @),
                      !.AssigneeID  = str("assignee_id", @),
                      !.Estimate    = num("estimate", @),
                      !.CycleID     = str("cycle_id", @),
                      !.ParentID    = str("parent_id", @),
                      !.Labels      = labels]

\* handleIssue PUT: l.(string) panics on a label that is not a string
LabelsPanic(body) ==
    /\ "labels" \in DOMAIN body
    /\ body["labels"].t = "array"
    /\ \E i \in 1..Len(body["labels"].a) : body["labels"].a[i].t # "string"

\* the record of a request that answered code and wrote nothing
Answer(op, id, req, code) ==
    [op |-> op, id |-> id, req |-> req,
     pre |-> IF id \in DOMAIN issues THEN Some(issues[id]) ELSE Null,
     code |-> code, t |-> now]

\* the record of a request for an id that is not stored: handleIssue answers
\* before it reads the body
NotFound(op, id) == Answer(op, id, <<>>, StatusNotFound)

\* POST /api/issues without the default of the status: an issue created
\* without status is stored with the status ""
handleIssuesPostNoDefault(req) ==
    IF ~req.decodable
    THEN /\ last' = Answer("post", 0, req, StatusBadRequest)
         /\ UNCHANGED <<issues, workspaces, now>>
    ELSE IF ~WorkspaceGetByID(workspaces, req.WorkspaceID)
    THEN /\ last' = Answer("post", 0, req, StatusNotFound)
         /\ UNCHANGED <<issues, workspaces, now>>
    ELSE \E t1 \in Ticks(now) : \E t2 \in Ticks(t1) :
            LET issue == [ID          |-> t1,
                          WorkspaceID |-> req.WorkspaceID,
                          Title       |-> req.Title,
                          Description |-> req.Description,
                          Status      |-> req.Status,
                          Priority    |-> req.Priority,
                          AssigneeID  |-> req.AssigneeID,
                          Labels      |-> req.Labels,
                          Estimate    |-> req.Estimate,
                          CycleID     |-> req.CycleID,
                          ParentID    |-> req.ParentID]
            IN  /\ now' = t2
                /\ UNCHANGED workspaces
                /\ IF t1 \in DOMAIN issues
                   THEN \* id TEXT PRIMARY KEY: the INSERT fails
                        /\ issues' = issues
                        /\ last' = [op |-> "post", id |-> t1, req |-> req,
                                    pre |-> Some(issues[t1]),
                                    code |-> StatusInternalServerError, t |-> t2]
                   ELSE /\ issues' = IssueCreate(issues, issue, t2)
                        /\ last' = [op |-> "post", id |-> t1, req |-> req,
                                    pre |-> Null, code |-> StatusOK, t |-> t2]

\* POST /api/issues
handleIssuesPost(req) ==
    IF ~req.decodable
    THEN /\ last' = Answer("post", 0, req, StatusBadRequest)
         /\ UNCHANGED <<issues, workspaces, now>>
    ELSE IF ~WorkspaceGetByID(workspaces, req.WorkspaceID)
    THEN /\ last' = Answer("post", 0, req, StatusNotFound)
         /\ UNCHANGED <<issues, workspaces, now>>
    ELSE \E t1 \in Ticks(now) : \E t2 \in Ticks(t1) :
            LET issue == [ID          |-> t1,
                          WorkspaceID |-> req.WorkspaceID,
                          Title       |-> req.Title,
                          Description |-> req.Description,
                          Status      |-> IF req.Status = "" THEN "backlog" ELSE req.Status,
                          Priority    |-> req.Priority,
                          AssigneeID  |-> req.AssigneeID,
                          Labels      |-> req.Labels,
                          Estimate    |-> req.Estimate,
                          CycleID     |-> req.CycleID,
                          ParentID    |-> req.ParentID]
            IN  /\ now' = t2
                /\ UNCHANGED workspaces
                /\ IF t1 \in DOMAIN issues
                   THEN \* id TEXT PRIMARY KEY: the INSERT fails
                        /\ issues' = issues
                        /\ last' = [op |-> "post", id |-> t1, req |-> req,
                                    pre |-> Some(issues[t1]),
                                    code |-> StatusInternalServerError, t |-> t2]
                   ELSE /\ issues' = IssueCreate(issues, issue, t2)
                        /\ last' = [op |-> "post", id |-> t1, req |-> req,
                                    pre |-> Null, code |-> StatusOK, t |-> t2]

\* PUT /api/issues/{id}
handleIssuePut(id, req) ==
    LET found == IssueGetByID(issues, id)
    IN  IF found = Null
        THEN /\ last' = NotFound("put", id)
             /\ UNCHANGED <<issues, workspaces, now>>
        ELSE IF ~req.decodable
        THEN /\ last' = Answer("put", id, req, StatusBadRequest)
             /\ UNCHANGED <<issues, workspaces, now>>
        ELSE IF LabelsPanic(req.body)
        THEN /\ last' = Answer("put", id, req, Aborted)
             /\ UNCHANGED <<issues, workspaces, now>>
        ELSE \E t \in Ticks(now) :
                /\ now' = t
                /\ issues' = IssueUpdate(issues, ApplyChanges(found[1], req.body), t)
                /\ last' = [op |-> "put", id |-> id, req |-> req,
                            pre |-> Some(issues[id]), code |-> StatusOK, t |-> t]
                /\ UNCHANGED workspaces

\* PATCH /api/issues/{id}
handleIssuePatch(id, req) ==
    IF IssueGetByID(issues, id) = Null
    THEN /\ last' = NotFound("patch", id)
         /\ UNCHANGED <<issues, workspaces, now>>
    ELSE IF ~req.decodable
    THEN /\ last' = Answer("patch", id, req, StatusBadRequest)
         /\ UNCHANGED <<issues, workspaces, now>>
    ELSE \E t \in Ticks(now) :
            /\ now' = t
            /\ issues' = IssueUpdateStatus(issues, id, req.Status, t)
            /\ last' = [op |-> "patch", id |-> id, req |-> req,
                        pre |-> Some(issues[id]), code |-> StatusOK, t |-> t]
            /\ UNCHANGED workspaces

\* DELETE /api/issues/{id}
handleIssueDelete(id) ==
    IF IssueGetByID(issues, id) = Null
    THEN /\ last' = NotFound("delete", id)
         /\ UNCHANGED <<issues, workspaces, now>>
    ELSE /\ issues' = IssueDelete(issues, id)
         /\ last' = Answer("delete", id, <<>>, StatusNoContent)
         /\ UNCHANGED <<workspaces, now>>

----------------------------------------------------------------------------
(* Specification *)

\* after NewServer: Migrate has created the empty tables and the workspace
\* "default"
Init ==
    /\ issues = <<>>
    /\ workspaces = {"default"}
    /\ now = 0
    /\ last = [op |-> "init", id |-> 0, req |-> <<>>, pre |-> Null,
               code |-> StatusOK, t |-> 0]
    /\ inflight = <<>>

Post == (\E req \in PostRequests : handleIssuesPost(req)) /\ UNCHANGED inflight

Put ==
    /\ \E id \in RequestIds : \E req \in PutRequests : handleIssuePut(id, req)
    /\ UNCHANGED inflight

Patch ==
    /\ \E id \in RequestIds : \E req \in PatchRequests : handleIssuePatch(id, req)
    /\ UNCHANGED inflight

DeleteIssue == (\E id \in RequestIds : handleIssueDelete(id)) /\ UNCHANGED inflight

Next ==
    \/ Post
    \/ Put
    \/ Patch
    \/ DeleteIssue

Spec == Init /\ [][Next]_vars

----------------------------------------------------------------------------
(* Properties of the issue lifecycle *)

\* the latest request was an update of kind op that answered 200
Updated(op) == last.op = op /\ last.code = StatusOK

\* the row the latest update found, and the row it left
PreRow == last.pre[1]

PostRow == issues[last.id]

\* the latest request was a PUT whose decoded body lists key k
PutLists(k) == Updated("put") /\ k \in DOMAIN last.req.body

\* C1: every stored issue has completed_at set if and only if its status
\* is "done"
C1_CompletedIffDone ==
    \A id \in DOMAIN issues :
        (issues[id].completed_at # Null) <=> (issues[id].status = "done")

\* C2: a PUT that sets status to "done" on an issue that was not done sets
\* completed_at to the update time, and a PUT that leaves a status other than
\* "done" on an issue whose completed_at was set clears completed_at
C2_PutMaintainsCompletedAt ==
    Updated("put") =>
        /\ (PutLists("status") /\ PostRow.status = "done" /\ PreRow.status # "done")
              => PostRow.completed_at = Some(last.t)
        /\ (PostRow.status # "done" /\ PreRow.completed_at # Null)
              => PostRow.completed_at = Null

\* C3: a PATCH with status s leaves the row that a PUT listing only status = s
\* leaves when applied to the same row at the same time
C3_PatchEqualsPutOfStatus ==
    Updated("patch") =>
        PostRow = IssueUpdate([i \in {last.id} |-> PreRow],
                              ApplyChanges(ScanIssue(PreRow),
                                           Obj("status", JString(last.req.Status))),
                              last.t)[last.id]

\* C4: a PATCH to "done" of an issue that is already done and has its
\* completed_at set leaves completed_at as it was
C4_NoRestamp ==
    (Updated("patch") /\ last.req.Status = "done"
        /\ PreRow.status = "done" /\ PreRow.completed_at # Null)
    => PostRow.completed_at = PreRow.completed_at

\* the latest request was a PUT or PATCH of a stored issue that carried a
\* status string outside the five states
CarriedInvalidStatus ==
    /\ last.op \in {"put", "patch"}
    /\ last.pre # Null
    /\ last.req.decodable
    /\ \/ /\ last.op = "put"
          /\ "status" \in DOMAIN last.req.body
          /\ last.req.body["status"].t = "string"
          /\ last.req.body["status"].s \notin Statuses \cup {""}
       \/ /\ last.op = "patch"
          /\ last.req.Status \notin Statuses \cup {""}

\* C5: an update carrying a status outside the five states fails and leaves
\* the stored issue as it was
C5_InvalidStatusRejected ==
    CarriedInvalidStatus =>
        /\ last.code # StatusOK
        /\ last.id \in DOMAIN issues
        /\ PostRow = PreRow

\* C6: every stored issue's status is one of the five states
C6_StatusValid == \A id \in DOMAIN issues : issues[id].status \in Statuses

\* C7: every stored issue has a non-empty title; a POST without title and a
\* PUT with an empty title are rejected and change nothing
C7_TitleNonEmpty ==
    /\ \A id \in DOMAIN issues : issues[id].title # ""
    /\ (last.op = "post" /\ last.req.decodable /\ last.req.Title = "")
          => last.code # StatusOK
    /\ (last.op = "put" /\ last.pre # Null /\ last.req.decodable
          /\ "title" \in DOMAIN last.req.body
          /\ last.req.body["title"] = JString(""))
          => (last.code # StatusOK /\ PostRow = PreRow)

\* C8: a successful PUT or PATCH sets updated_at to the time of the update,
\* which is never earlier than the updated_at it replaces
C8_UpdatedAtSet ==
    (Updated("put") \/ Updated("patch")) =>
        /\ PostRow.updated_at = last.t
        /\ PostRow.updated_at >= PreRow.updated_at

\* C8 happens: a PUT with an empty body moved updated_at forward
C8_Witness ==
    /\ Updated("put")
    /\ DOMAIN last.req.body = {}
    /\ PostRow.updated_at > PreRow.updated_at

\* C9: a PUT whose body does not list status leaves completed_at as it was
C9_PutKeepsCompletedAt ==
    (Updated("put") /\ "status" \notin DOMAIN last.req.body)
        => PostRow.completed_at = PreRow.completed_at

\* C9 happens: a PUT without status, at a later time, on an issue whose
\* completed_at was set
C9_Witness ==
    /\ Updated("put")
    /\ "status" \notin DOMAIN last.req.body
    /\ PreRow.completed_at # Null
    /\ last.t > PreRow.completed_at[1]

\* the keys of a PUT body, which are also the names of the columns they set
PutKeys == DOMAIN FullBody

\* C10: a PUT leaves every updatable column its body does not list as it was,
\* and no PUT or PATCH changes id, workspace_id or created_at
C10_Frame ==
    /\ Updated("put") =>
          \A k \in PutKeys \ DOMAIN last.req.body : PostRow[k] = PreRow[k]
    /\ (Updated("put") \/ Updated("patch")) =>
          /\ PostRow.id = PreRow.id
          /\ PostRow.workspace_id = PreRow.workspace_id
          /\ PostRow.created_at = PreRow.created_at

\* C10 happens: a PUT listing only description changed it on an issue whose
\* other columns are set, after an earlier update
C10_Witness ==
    /\ Updated("put")
    /\ DOMAIN last.req.body = {"description"}
    /\ PostRow.description # PreRow.description
    /\ PreRow.estimate # 0
    /\ PreRow.labels # <<"null">>
    /\ PreRow.created_at < last.t

\* the column k of row shows the JSON value v a PUT body lists for it
Shows(row, k, v) ==
    IF k \in {"priority", "estimate"}
    THEN v.t = "number" /\ row[k] * 10 = v.n
    ELSE IF k = "labels"
    THEN /\ v.t = "array"
         /\ \A i \in 1..Len(v.a) : v.a[i].t = "string"
         /\ row[k] = Marshal(Slice([i \in 1..Len(v.a) |-> v.a[i].s]))
    ELSE v.t = "string" /\ row[k] = v.s

\* C11: a PUT that fails leaves the stored issue as it was, and a PUT that
\* answers 200 leaves the stored issue showing every change its body lists
C11_AllOrNothing ==
    last.op = "put" /\ last.pre # Null =>
        IF last.code = StatusOK
        THEN \A k \in DOMAIN last.req.body \cap PutKeys :
                Shows(PostRow, k, last.req.body[k])
        ELSE PostRow = PreRow

----------------------------------------------------------------------------
(* GET /api/metrics *)

\* the ids of the rows of tbl in workspace ws (WHERE workspace_id = ?)
InWorkspace(tbl, ws) == {i \in DOMAIN tbl : tbl[i].workspace_id = ws}

\* IssueRepository.CountByStatus: SELECT status, COUNT(*) ... GROUP BY status,
\* a map with one key per status some row of the workspace has
CountByStatus(tbl, ws) ==
    [st \in {tbl[i].status : i \in InWorkspace(tbl, ws)} |->
        Cardinality({i \in InWorkspace(tbl, ws) : tbl[i].status = st})]

\* the read of a Go map[string]int: the zero value for a missing key
Lookup(m, k) == IF k \in DOMAIN m THEN m[k] ELSE 0

\* the orders in which a query may return the rows ids of tbl
Orders(ids) ==
    {f \in [1..Cardinality(ids) -> ids] :
        \A i, j \in DOMAIN f : i # j => f[i] # f[j]}

\* IssueRepository.List(ws, "", 0, 0): the scanned rows of the workspace,
\* ORDER BY priority ASC, created_at DESC; rows that tie come in either order
IssueList(tbl, ws) ==
    {[i \in DOMAIN f |-> ScanIssue(tbl[f[i]])] : f \in
        {g \in Orders(InWorkspace(tbl, ws)) :
            \A i, j \in DOMAIN g : i < j =>
                \/ tbl[g[i]].priority < tbl[g[j]].priority
                \/ /\ tbl[g[i]].priority = tbl[g[j]].priority
                   /\ tbl[g[i]].created_at >= tbl[g[j]].created_at}}

\* handleMetrics: totalPoints += issue.Estimate
AddPoints(totalPoints, issue) == totalPoints + issue.Estimate

\* the velocity loop with completedPoints = issue.Estimate in place of +=
AddCompletedAssigned(completedPoints, issue) ==
    IF issue.Status = "done" THEN issue.Estimate ELSE completedPoints

\* handleMetrics: completedPoints += issue.Estimate when the status is "done"
AddCompleted(completedPoints, issue) ==
    IF issue.Status = "done"
    THEN completedPoints + issue.Estimate
    ELSE completedPoints

\* the bug loop without its break: bugs++ for every label equal to "bug"
AddBugNoBreak(bugs, issue) ==
    bugs + Cardinality({k \in DOMAIN issue.Labels.elems :
                           issue.Labels.elems[k] = "bug"})

\* handleMetrics: bugs++ and break at the first label equal to "bug"
AddBug(bugs, issue) ==
    IF \E k \in DOMAIN issue.Labels.elems : issue.Labels.elems[k] = "bug"
    THEN bugs + 1
    ELSE bugs

\* handleMetrics: the first loop over the listed issues, from the zero values
RECURSIVE VelocityLoop(_)
VelocityLoop(list) ==
    IF list = <<>> THEN [totalPoints |-> 0, completedPoints |-> 0]
    ELSE LET acc == VelocityLoop(SubSeq(list, 1, Len(list) - 1))
             issue == list[Len(list)]
         IN  [totalPoints     |-> AddPoints(acc.totalPoints, issue),
              completedPoints |-> AddCompleted(acc.completedPoints, issue)]

\* handleMetrics: the second loop over the listed issues
RECURSIVE BugLoop(_)
BugLoop(list) ==
    IF list = <<>> THEN 0
    ELSE AddBug(BugLoop(SubSeq(list, 1, Len(list) - 1)), list[Len(list)])

\* handleMetrics: totalIssues += count over the entries of statusCounts
RECURSIVE TotalIssues(_)
TotalIssues(counts) ==
    IF DOMAIN counts = {} THEN 0
    ELSE LET st == CHOOSE x \in DOMAIN counts : TRUE
         IN  counts[st] + TotalIssues([x \in DOMAIN counts \ {st} |-> counts[x]])

\* a float64 quotient num / den (den > 0), kept exact
Ratio(num, den) == [num |-> num, den |-> den]

\* handleMetrics: float64(statusCounts["done"]) / float64(totalIssues) * 100,
\* 0.0 when there is no issue
CompletionRate(counts, totalIssues) ==
    IF totalIssues > 0
    THEN Ratio(Lookup(counts, "done") * 100, totalIssues)
    ELSE Ratio(0, 1)

\* handleMetrics: the metrics map written as the response
MetricsResponse(workspaceID, statusCounts, list) ==
    [workspace_id      |-> workspaceID,
     total_issues      |-> TotalIssues(statusCounts),
     backlog_count     |-> Lookup(statusCounts, "backlog"),
     todo_count        |-> Lookup(statusCounts, "todo"),
     in_progress_count |-> Lookup(statusCounts, "in_progress"),
     done_count        |-> Lookup(statusCounts, "done"),
     total_points      |-> VelocityLoop(list).totalPoints,
     completed_points  |-> VelocityLoop(list).completedPoints,
     completion_rate   |-> CompletionRate(statusCounts, TotalIssues(statusCounts)),
     bug_count         |-> BugLoop(list)]

\* GET /api/metrics?workspace_id=param
handleMetrics(param) ==
    LET workspaceID == IF param = "" THEN "default" ELSE param
    IN  \E list \in IssueList(issues, workspaceID) :
            /\ last' = [op |-> "metrics", id |-> 0,
                        req |-> [workspace_id |-> param], pre |-> Null,
                        code |-> StatusOK, t |-> now,
                        resp |-> MetricsResponse(workspaceID,
                                    CountByStatus(issues, workspaceID), list)]
            /\ UNCHANGED <<issues, workspaces, now>>

\* the most issues a table under the metrics handler holds
MaxMetricRows == 3

\* the issues the tables are made of, as POST requests: the three estimates
\* 3, 5, 8 of which the 5 is done, a done issue without estimate, an issue
\* labelled "bug" twice and one labelled "bugfix", a canceled issue, an issue
\* of an unknown status, and an issue of another workspace
MetricPosts ==
    {[FullPost EXCEPT !.Status = "todo", !.Estimate = 3, !.Labels = Slice(<<"bug">>)],
     [FullPost EXCEPT !.Status = "done", !.Estimate = 5, !.Labels = Slice(<<"bug", "bug">>)],
     [FullPost EXCEPT !.Status = "in_progress", !.Estimate = 8, !.Labels = Slice(<<"bugfix">>)],
     [FullPost EXCEPT !.Status = "done", !.Estimate = 0, !.Labels = NilSlice],
     [FullPost EXCEPT !.Status = "canceled", !.Estimate = 2, !.Labels = Slice(<<"ux", "bug">>)],
     [FullPost EXCEPT !.Status = "bogus", !.Estimate = 1, !.Labels = Slice(<<>>)],
     [FullPost EXCEPT !.WorkspaceID = "w2", !.Status = "done", !.Estimate = 1]}

\* the sequences of at most n elements of S
SeqsUpTo(S, n) == UNION {[1..k -> S] : k \in 0..n}

\* the table after the requests of posts were served in order, the i-th at
\* the clock readings 2i - 1 (its id) and 2i (its created_at)
RECURSIVE Populate(_)
Populate(posts) ==
    IF posts = <<>> THEN <<>>
    ELSE LET n == Len(posts)
             req == posts[n]
         IN  IssueCreate(Populate(SubSeq(posts, 1, n - 1)),
                         [ID          |-> 2 * n - 1,
                          WorkspaceID |-> req.WorkspaceID,
                          Title       |-> req.Title,
                          Description |-> req.Description,
                          Status      |-> req.Status,
                          Priority    |-> req.Priority,
                          AssigneeID  |-> req.AssigneeID,
                          Labels      |-> req.Labels,
                          Estimate    |-> req.Estimate,
                          CycleID     |-> req.CycleID,
                          ParentID    |-> req.ParentID],
                         2 * n)

\* the workspace_id parameters of GET /api/metrics: none, and two workspaces
MetricParams == {"", "default", "w2"}

\* a server whose table holds some issues, before any GET /api/metrics
InitMetrics ==
    /\ \E posts \in SeqsUpTo(MetricPosts, MaxMetricRows) :
          /\ issues = Populate(posts)
          /\ now = 2 * Len(posts)
    /\ workspaces = {"default", "w2"}
    /\ last = [op |-> "init", id |-> 0, req |-> <<>>, pre |-> Null,
               code |-> StatusOK, t |-> 0]
    /\ inflight = <<>>

Metrics == (\E param \in MetricParams : handleMetrics(param)) /\ UNCHANGED inflight

NextMetrics == Metrics

SpecMetrics == InitMetrics /\ [][NextMetrics]_vars

----------------------------------------------------------------------------
(* Properties of the metrics *)

\* the latest request was a GET /api/metrics
Measured == last.op = "metrics"

\* the ids of the issues in the scope of the latest metrics request
Scope == InWorkspace(issues, last.resp.workspace_id)

\* the number of issues in scope whose status is st
InStatus(st) == Cardinality({i \in Scope : issues[i].status = st})

\* the sum of estimate over the issues ids
RECURSIVE SumEstimate(_)
SumEstimate(ids) ==
    IF ids = {} THEN 0
    ELSE LET i == CHOOSE x \in ids : TRUE
         IN  issues[i].estimate + SumEstimate(ids \ {i})

PointsPlanned == SumEstimate(Scope)

PointsCompleted == SumEstimate({i \in Scope : issues[i].status = "done"})

\* two quotients are the same number
RatioEq(a, b) == a.num * b.den = b.num * a.den

\* the quotient a lies in [0, 100]
InPercent(a) == 0 <= a.num /\ a.num <= 100 * a.den

\* the key under which the response reports the count of a status
CountKey ==
    [backlog     |-> "backlog_count",
     todo        |-> "todo_count",
     in_progress |-> "in_progress_count",
     done        |-> "done_count",
     canceled    |-> "canceled_count"]

\* C12: the metrics response reports, for each of the five statuses, the
\* number of issues in scope in that status, and its total is the sum of the
\* five counts
C12_StatusCounts ==
    Measured =>
        /\ \A st \in Statuses :
              /\ CountKey[st] \in DOMAIN last.resp
              /\ last.resp[CountKey[st]] = InStatus(st)
        /\ last.resp.total_issues =
              InStatus("backlog") + InStatus("todo") + InStatus("in_progress")
              + InStatus("done") + InStatus("canceled")

\* C13: completion_rate is points completed / points planned * 100 when
\* points are planned, and 0 otherwise (31.25 for estimates 3, 5, 8 with the
\* 5 done)
C13_CompletionRateByPoints ==
    Measured =>
        RatioEq(last.resp.completion_rate,
                IF PointsPlanned > 0
                THEN Ratio(PointsCompleted * 100, PointsPlanned)
                ELSE Ratio(0, 1))

\* C14: the metrics response reports the sum of estimate over the issues in
\* scope, the sum over the done ones, and their difference as carryover
C14_PointsAndCarryover ==
    Measured =>
        /\ last.resp.total_points = PointsPlanned
        /\ last.resp.completed_points = PointsCompleted
        /\ "carryover" \in DOMAIN last.resp
        /\ last.resp.carryover = PointsPlanned - PointsCompleted

\* C15: completion_rate and bug_rate lie in [0, 100], completion_rate is 0
\* when no points are planned and bug_rate is 0 when there is no issue
C15_RatesBounded ==
    Measured =>
        /\ InPercent(last.resp.completion_rate)
        /\ PointsPlanned = 0 => RatioEq(last.resp.completion_rate, Ratio(0, 1))
        /\ "bug_rate" \in DOMAIN last.resp
        /\ InPercent(last.resp.bug_rate)
        /\ Scope = {} => RatioEq(last.resp.bug_rate, Ratio(0, 1))

\* the labels of the stored issue i, as a set
LabelSet(i) ==
    {Unmarshal(issues[i].labels).elems[k] :
        k \in DOMAIN Unmarshal(issues[i].labels).elems}

\* the number of labels of the stored issue i equal to l
Occurrences(i, l) ==
    Cardinality({k \in DOMAIN Unmarshal(issues[i].labels).elems :
                    Unmarshal(issues[i].labels).elems[k] = l})

\* C16: bug_count is the number of issues in scope that carry the label
\* "bug": once per issue, and no other label counts
C16_BugCount ==
    Measured =>
        last.resp.bug_count = Cardinality({i \in Scope : "bug" \in LabelSet(i)})

\* C16 happens: metrics over an issue labelled "bug" twice, an issue labelled
\* "bugfix" only and an issue without labels
C16_Witness ==
    /\ Measured
    /\ \E i \in Scope : Occurrences(i, "bug") = 2
    /\ \E i \in Scope : LabelSet(i) = {"bugfix"}
    /\ \E i \in Scope : LabelSet(i) = {}
    /\ last.resp.bug_count = 1

\* C17: the metrics response is the one the handler computes from the issues
\* in scope listed in any order, now and again while no issue changes
C17_OrderIndependent ==
    Measured =>
        \A f \in Orders(Scope) :
            MetricsResponse(last.resp.workspace_id,
                            CountByStatus(issues, last.resp.workspace_id),
                            [k \in DOMAIN f |-> ScanIssue(issues[f[k]])])
            = last.resp

\* C17 happens: metrics over three issues of which two are done with
\* different estimates
C17_Witness ==
    /\ Measured
    /\ Cardinality(Scope) = 3
    /\ \E i, j \in Scope :
          /\ issues[i].status = "done"
          /\ issues[j].status = "done"
          /\ issues[i].estimate # issues[j].estimate
    /\ last.resp.completed_points > 0

\* the keys under which lead-time and cycle-time statistics would be reported
DistributionKeys == {"lead_time", "cycle_time"}

\* C18: the metrics response carries the lead-time and cycle-time statistics
\* mean, P50, P90 and P99, with P50 <= P90 <= P99
C18_Percentiles ==
    Measured =>
        \A k \in DistributionKeys :
            /\ k \in DOMAIN last.resp
            /\ DOMAIN last.resp[k] = {"mean", "p50", "p90", "p99"}
            /\ last.resp[k].p50 <= last.resp[k].p90
            /\ last.resp[k].p90 <= last.resp[k].p99

----------------------------------------------------------------------------
(* GET /api/search *)

\* strings.HasPrefix
HasPrefix(s, prefix) ==
    Len(s) >= Len(prefix) /\ SubSeq(s, 1, Len(prefix)) = prefix

\* strings.TrimPrefix of a string that has the prefix
TrimPrefix(s, prefix) == SubSeq(s, Len(prefix) + 1, Len(s))

\* contains comparing lengths only: true for every substr that fits into s
containsLengthOnly(s, substr) == Len(substr) <= Len(s)

\* contains with the loop condition i < len(s)-len(substr): the last position
\* is not tried
containsShortLoop(s, substr) ==
    \E i \in 0..(Len(s) - Len(substr) - 1) :
        SubSeq(s, i + 1, i + Len(substr)) = substr

\* contains: for i := 0; i <= len(s)-len(substr); i++ tries
\* s[i:i+len(substr)] == substr; no position when substr is longer than s
contains(s, substr) ==
    \E i \in 0..(Len(s) - Len(substr)) :
        SubSeq(s, i + 1, i + Len(substr)) = substr

\* the prefix parsing without query = "": the text of q stays the text query
ParseFiltersKeepQuery(req) ==
    LET isStatus   == req.q # "" /\ HasPrefix(req.q, "status:")
        isLabel    == req.q # "" /\ ~isStatus /\ HasPrefix(req.q, "label:")
        isAssignee == req.q # "" /\ ~isStatus /\ ~isLabel
                      /\ HasPrefix(req.q, "assignee:")
        statusFilter   == IF isStatus THEN TrimPrefix(req.q, "status:") ELSE ""
        labelFilter    == IF isLabel THEN TrimPrefix(req.q, "label:") ELSE ""
        assigneeFilter == IF isAssignee THEN TrimPrefix(req.q, "assignee:") ELSE ""
    IN  [query          |-> req.q,
         statusFilter   |-> IF statusFilter = "" THEN req.status ELSE statusFilter,
         labelFilter    |-> IF labelFilter = "" THEN req.label ELSE labelFilter,
         assigneeFilter |-> IF assigneeFilter = "" THEN req.assignee ELSE assigneeFilter]

\* handleSearch: the query and the three filters after the prefix of q and
\* the parameters status, label and assignee are read; a filter the prefix
\* left empty takes its parameter
ParseFilters(req) ==
    LET isStatus   == req.q # "" /\ HasPrefix(req.q, "status:")
        isLabel    == req.q # "" /\ ~isStatus /\ HasPrefix(req.q, "label:")
        isAssignee == req.q # "" /\ ~isStatus /\ ~isLabel
                      /\ HasPrefix(req.q, "assignee:")
        statusFilter   == IF isStatus THEN TrimPrefix(req.q, "status:") ELSE ""
        labelFilter    == IF isLabel THEN TrimPrefix(req.q, "label:") ELSE ""
        assigneeFilter == IF isAssignee THEN TrimPrefix(req.q, "assignee:") ELSE ""
    IN  [query          |-> IF isStatus \/ isLabel \/ isAssignee THEN "" ELSE req.q,
         statusFilter   |-> IF statusFilter = "" THEN req.status ELSE statusFilter,
         labelFilter    |-> IF labelFilter = "" THEN req.label ELSE labelFilter,
         assigneeFilter |-> IF assigneeFilter = "" THEN req.assignee ELSE assigneeFilter]

\* the filter loop with the label filter compared by equality
MatchesExactLabel(issue, f) ==
    /\ f.query # "" =>
          contains(issue.Title, f.query) \/ contains(issue.Description, f.query)
    /\ f.statusFilter # "" => issue.Status = f.statusFilter
    /\ f.labelFilter # "" =>
          \E k \in DOMAIN issue.Labels.elems : issue.Labels.elems[k] = f.labelFilter
    /\ f.assigneeFilter # "" => issue.AssigneeID = f.assigneeFilter

\* handleSearch: the value of matches for one issue at the end of the loop
\* body
Matches(issue, f) ==
    /\ f.query # "" =>
          contains(issue.Title, f.query) \/ contains(issue.Description, f.query)
    /\ f.statusFilter # "" => issue.Status = f.statusFilter
    /\ f.labelFilter # "" =>
          \E k \in DOMAIN issue.Labels.elems :
              contains(issue.Labels.elems[k], f.labelFilter)
    /\ f.assigneeFilter # "" => issue.AssigneeID = f.assigneeFilter

\* handleSearch: the filter loop, appending a result for every match
RECURSIVE FilterLoop(_, _, _)
FilterLoop(list, f, workspaceID) ==
    IF list = <<>> THEN <<>>
    ELSE LET issue == list[Len(list)]
             rest == FilterLoop(SubSeq(list, 1, Len(list) - 1), f, workspaceID)
         IN  IF Matches(issue, f)
             THEN Append(rest, [type      |-> "issue",
                                id        |-> issue.ID,
                                title     |-> issue.Title,
                                status    |-> issue.Status,
                                labels    |-> issue.Labels,
                                estimate  |-> issue.Estimate,
                                workspace |-> workspaceID])
             ELSE rest

\* handleSearch answering its results last match first
handleSearchReversed(req) ==
    LET workspaceID == IF req.workspace_id = "" THEN "default" ELSE req.workspace_id
        f == ParseFilters(req)
    IN  \E list \in IssueList(issues, workspaceID) :
            LET results == FilterLoop(list, f, workspaceID)
            IN  /\ last' = [op |-> "search", id |-> 0, req |-> req, pre |-> Null,
                            code |-> StatusOK, t |-> now,
                            filters |-> f, list |-> list,
                            resp |-> [k \in DOMAIN results |->
                                         results[Len(results) + 1 - k]]]
                /\ UNCHANGED <<issues, workspaces, now>>

\* GET /api/search?q=&workspace_id=&status=&label=&assignee=
handleSearch(req) ==
    LET workspaceID == IF req.workspace_id = "" THEN "default" ELSE req.workspace_id
        f == ParseFilters(req)
    IN  \E list \in IssueList(issues, workspaceID) :
            /\ last' = [op |-> "search", id |-> 0, req |-> req, pre |-> Null,
                        code |-> StatusOK, t |-> now,
                        filters |-> f, list |-> list,
                        resp |-> FilterLoop(list, f, workspaceID)]
            /\ UNCHANGED <<issues, workspaces, now>>

\* the most issues a table under the search handler holds
MaxSearchRows == 2

\* the issues the tables are made of, as POST requests: "Fix login bug" and
\* "Add dark mode" without descriptions, an issue that has the word login in
\* its description only and a label that contains "bug", and an issue of
\* another workspace
SearchPosts ==
    {[FullPost EXCEPT !.Title = "Fix login bug", !.Description = "",
                      !.Labels = Slice(<<"bug">>), !.Status = "todo"],
     [FullPost EXCEPT !.Title = "Add dark mode", !.Description = "",
                      !.Labels = Slice(<<"feature">>), !.Status = "backlog",
                      !.AssigneeID = ""],
     [FullPost EXCEPT !.Title = "Page", !.Description = "the login page",
                      !.Labels = Slice(<<"ux", "bugfix">>), !.Status = "done",
                      !.AssigneeID = "u2"],
     [FullPost EXCEPT !.WorkspaceID = "w2", !.Title = "bug", !.Status = "todo"]}

\* the values of q: none, text found in titles and descriptions, text of
\* another case, text longer than every title, and the three prefixes with and
\* without a value
Queries ==
    {"", "e", "bug", "login", "Bug", "Fix login bugs",
     "status:", "status:todo", "label:bug", "label:", "assignee:u1"}

\* a search request with q only
QueryOnly(q) ==
    [q |-> q, workspace_id |-> "", status |-> "", label |-> "", assignee |-> ""]

\* search requests: each q alone, three values of q with each choice of the
\* parameters status, label and assignee, a search of another workspace, a q
\* with two prefixes, a prefix without value beside a parameter, and a prefix
\* beside the parameter of another filter
SearchRequests ==
    {QueryOnly(q) : q \in Queries}
    \cup {[q |-> q, workspace_id |-> "", status |-> st, label |-> l, assignee |-> a] :
            q \in {"", "bug", "status:todo"}, st \in {"", "done"},
            l \in {"", "bug"}, a \in {"", "u1"}}
    \cup {[QueryOnly("bug") EXCEPT !.workspace_id = "w2"]}
    \cup {QueryOnly("status:label:bug"),
          [QueryOnly("status:") EXCEPT !.status = "done"],
          [QueryOnly("label:ux") EXCEPT !.status = "done"]}

\* a server whose table holds some issues, before any GET /api/search
InitSearch ==
    /\ \E posts \in SeqsUpTo(SearchPosts, MaxSearchRows) :
          /\ issues = Populate(posts)
          /\ now = 2 * Len(posts)
    /\ workspaces = {"default", "w2"}
    /\ last = [op |-> "init", id |-> 0, req |-> <<>>, pre |-> Null,
               code |-> StatusOK, t |-> 0]
    /\ inflight = <<>>

Search == (\E req \in SearchRequests : handleSearch(req)) /\ UNCHANGED inflight

NextSearch == Search

SpecSearch == InitSearch /\ [][NextSearch]_vars

----------------------------------------------------------------------------
(* Properties of the search *)

\* the latest request was a GET /api/search
Searched == last.op = "search"

\* q is a contiguous part of s
IsSubstring(q, s) ==
    \E i \in 1..(Len(s) + 1) : \E j \in (i - 1)..Len(s) : SubSeq(s, i, j) = q

\* the ids of the issues of the workspace the latest search named
SearchScope ==
    InWorkspace(issues,
                IF last.req.workspace_id = "" THEN "default"
                ELSE last.req.workspace_id)

\* the ids of the issues the latest search returned
ResultIds == {last.resp[k].id : k \in DOMAIN last.resp}

\* q starts with one of the prefixes that encode a filter
Prefixed(q) == \E p \in {"status:", "label:", "assignee:"} : HasPrefix(q, p)

\* the labels of the stored issue i
LabelsOf(i) == Unmarshal(issues[i].labels).elems

\* the stored issue i has the text q in its title or its description
TextMatch(i, q) ==
    IsSubstring(q, issues[i].title) \/ IsSubstring(q, issues[i].description)

\* the titles, descriptions and labels of the stored issues
StoredStrings ==
    UNION {{issues[i].title, issues[i].description}
           \cup {LabelsOf(i)[k] : k \in DOMAIN LabelsOf(i)} : i \in DOMAIN issues}

\* C19: with no filter active, search returns exactly the issues whose title
\* or description contains the text query, every issue when it is empty; a q
\* without prefix is the text query; and contains(s, q) is substring
\* containment
C19_TextSearch ==
    Searched =>
        /\ (/\ last.filters.statusFilter = ""
            /\ last.filters.labelFilter = ""
            /\ last.filters.assigneeFilter = "")
           => /\ ResultIds = {i \in SearchScope : TextMatch(i, last.filters.query)}
              /\ Len(last.resp) = Cardinality(ResultIds)
              /\ last.filters.query = "" => ResultIds = SearchScope
        /\ ~Prefixed(last.req.q) => last.filters.query = last.req.q
        /\ \A s \in StoredStrings : \A q \in Queries \cup StoredStrings :
              contains(s, q) <=> IsSubstring(q, s)

\* C19 happens: a search for "bug" without filters over two issues returned
\* the one whose title ends with it
C19_Witness ==
    /\ Searched
    /\ last.req = QueryOnly("bug")
    /\ Cardinality(SearchScope) = 2
    /\ Len(last.resp) = 1
    /\ \E i \in ResultIds : issues[i].title = "Fix login bug"

\* C20: search returns exactly the issues that pass every active filter: the
\* text in title or description, the status equal, some label containing the
\* label filter, the assignee equal
C20_AllFilters ==
    Searched =>
        LET f == last.filters
        IN  /\ ResultIds =
                 {i \in SearchScope :
                     /\ f.query = "" \/ TextMatch(i, f.query)
                     /\ f.statusFilter = "" \/ issues[i].status = f.statusFilter
                     /\ f.labelFilter = "" \/
                           \E k \in DOMAIN LabelsOf(i) :
                               IsSubstring(f.labelFilter, LabelsOf(i)[k])
                     /\ f.assigneeFilter = "" \/ issues[i].assignee_id = f.assigneeFilter}
            /\ Len(last.resp) = Cardinality(ResultIds)

\* C20 happens: a search with text, label and assignee over two issues that
\* both have a label containing the label filter returned one of them
C20_Witness ==
    /\ Searched
    /\ last.filters.query # ""
    /\ last.filters.labelFilter # ""
    /\ last.filters.assigneeFilter # ""
    /\ Cardinality(SearchScope) = 2
    /\ \A i \in SearchScope :
          \E k \in DOMAIN LabelsOf(i) : IsSubstring(last.filters.labelFilter, LabelsOf(i)[k])
    /\ \E i \in SearchScope : last.filters.labelFilter \notin
          {LabelsOf(i)[k] : k \in DOMAIN LabelsOf(i)}
    /\ Len(last.resp) = 1

\* C21: when q encodes a filter through its prefix and the parameter of the
\* same filter is supplied, the filter applied is the parameter's value
C21_ExplicitWins ==
    Searched =>
        /\ HasPrefix(last.req.q, "status:") /\ last.req.status # ""
              => last.filters.statusFilter = last.req.status
        /\ HasPrefix(last.req.q, "label:") /\ last.req.label # ""
              => last.filters.labelFilter = last.req.label
        /\ HasPrefix(last.req.q, "assignee:") /\ last.req.assignee # ""
              => last.filters.assigneeFilter = last.req.assignee

\* the prefixes that encode a filter in q, and the filter each one sets
Prefixes ==
    [statusFilter |-> "status:", labelFilter |-> "label:", assigneeFilter |-> "assignee:"]

\* the parameter that sets each filter
ParamOf ==
    [statusFilter |-> "status", labelFilter |-> "label", assigneeFilter |-> "assignee"]

\* the issues in scope that pass the three filters in force, whatever their text
PassFilters ==
    {i \in SearchScope :
        /\ last.filters.statusFilter = "" \/ issues[i].status = last.filters.statusFilter
        /\ last.filters.labelFilter = "" \/
              \E k \in DOMAIN LabelsOf(i) :
                  IsSubstring(last.filters.labelFilter, LabelsOf(i)[k])
        /\ last.filters.assigneeFilter = "" \/
              issues[i].assignee_id = last.filters.assigneeFilter}

\* C22: when q starts with a prefix, the remainder is the value of that
\* filter (the parameter's value when there is no remainder), the text query
\* is empty and no text is matched; the two other filters are their
\* parameters, so no second prefix is recognized
C22_PrefixParsing ==
    Searched =>
        \A k \in DOMAIN Prefixes :
            HasPrefix(last.req.q, Prefixes[k]) =>
                LET rest == SubSeq(last.req.q, Len(Prefixes[k]) + 1, Len(last.req.q))
                IN  /\ last.filters[k] = IF rest = "" THEN last.req[ParamOf[k]] ELSE rest
                    /\ last.filters.query = ""
                    /\ \A o \in DOMAIN Prefixes \ {k} :
                          last.filters[o] = last.req[ParamOf[o]]
                    /\ ResultIds = PassFilters

\* C22 happens: q = label:bug over two issues returned one, whose text does
\* not contain q
C22_Witness ==
    /\ Searched
    /\ last.req = QueryOnly("label:bug")
    /\ Cardinality(SearchScope) = 2
    /\ Len(last.resp) = 1
    /\ \A i \in ResultIds : ~TextMatch(i, last.req.q)

\* the place of the issue id in the list the latest search loaded
PlaceInList(id) == CHOOSE k \in DOMAIN last.list : last.list[k].ID = id

\* C23: the results of a search come in the order of the loaded list, each
\* issue at most once
C23_OrderPreserved ==
    Searched =>
        \A a, b \in DOMAIN last.resp :
            a < b => PlaceInList(last.resp[a].id) < PlaceInList(last.resp[b].id)

\* C23 happens: a search returned two of the issues it loaded
C23_Witness ==
    /\ Searched
    /\ Len(last.list) = 2
    /\ Len(last.resp) = 2
    /\ last.resp[1].id = last.list[1].ID
    /\ last.resp[2].id = last.list[2].ID
    /\ last.list[1].ID # last.list[2].ID

\* the latest request was the search for "e" without filters over the two
\* issues "Fix login bug" and "Add dark mode", which have no description
SearchedForE ==
    /\ Searched
    /\ last.req = QueryOnly("e")
    /\ Cardinality(SearchScope) = 2
    /\ {issues[i].title : i \in SearchScope} = {"Fix login bug", "Add dark mode"}
    /\ \A i \in SearchScope : issues[i].description = ""

\* C24 as stated: the search for "e" over the two issues returns both
C24_BothReturned ==
    SearchedForE => ResultIds = SearchScope

\* C24: the search for "e" over the two issues returns "Add dark mode" only
\* ("Fix login bug" has no letter e)
C24_OnlyDarkMode ==
    SearchedForE =>
        /\ Len(last.resp) = 1
        /\ last.resp[1].title = "Add dark mode"

\* C24 happens: the search for "e" over the two issues, the one with label
\* bug and status todo, the other with label feature and status backlog
C24_Witness ==
    /\ SearchedForE
    /\ \E i \in SearchScope :
          /\ issues[i].title = "Fix login bug"
          /\ issues[i].status = "todo"
          /\ LabelsOf(i) = <<"bug">>
    /\ \E i \in SearchScope :
          /\ issues[i].title = "Add dark mode"
          /\ issues[i].status = "backlog"
          /\ LabelsOf(i) = <<"feature">>

----------------------------------------------------------------------------
(* DELETE /api/workspaces/{id} *)

\* the two tables a workspace deletion can touch
Tables(ws, tbl) == [workspaces |-> ws, issues |-> tbl]

\* a deletion that also removes the issues of the workspace, as ON DELETE
\* CASCADE would
WorkspaceDeleteCascade(db, id) ==
    [workspaces |-> db.workspaces \ {id},
     issues     |-> [i \in {j \in DOMAIN db.issues : db.issues[j].workspace_id # id}
                        |-> db.issues[i]]]

\* WorkspaceRepository.Delete: DELETE FROM workspaces WHERE id = ?
WorkspaceDelete(db, id) == [db EXCEPT !.workspaces = @ \ {id}]

\* FOREIGN KEY (workspace_id) REFERENCES workspaces(id) of the table issues:
\* some issue references the workspace
Referenced(tbl, id) == \E i \in DOMAIN tbl : tbl[i].workspace_id = id

\* the record of a workspace deletion that answered code
WorkspaceAnswer(id, code) ==
    [op |-> "delete_workspace", id |-> 0, req |-> [id |-> id],
     pre |-> Some(Tables(workspaces, issues)), code |-> code, t |-> now]

\* DELETE /api/workspaces/{id}; enforced tells whether the SQLite of the build
\* enforces foreign keys (New sets no PRAGMA foreign_keys, so the library's
\* compile-time default decides): when it does, the DELETE of a referenced
\* workspace fails
handleWorkspaceDelete(id, enforced) ==
    IF ~WorkspaceGetByID(workspaces, id)
    THEN /\ last' = WorkspaceAnswer(id, StatusNotFound)
         /\ UNCHANGED <<issues, workspaces, now>>
    ELSE IF enforced /\ Referenced(issues, id)
    THEN /\ last' = WorkspaceAnswer(id, StatusInternalServerError)
         /\ UNCHANGED <<issues, workspaces, now>>
    ELSE /\ workspaces' = WorkspaceDelete(Tables(workspaces, issues), id).workspaces
         /\ issues' = WorkspaceDelete(Tables(workspaces, issues), id).issues
         /\ last' = WorkspaceAnswer(id, StatusNoContent)
         /\ UNCHANGED now

\* the ids workspace deletions name: the two stored workspaces and one that
\* was never stored
WorkspaceIds == {"default", "w2", "nows"}

DeleteWorkspace ==
    /\ \E id \in WorkspaceIds : \E enforced \in BOOLEAN :
          handleWorkspaceDelete(id, enforced)
    /\ UNCHANGED inflight

NextWorkspace == DeleteWorkspace

\* a server whose table holds some issues, serving workspace deletions
SpecWorkspace == InitMetrics /\ [][NextWorkspace]_vars

\* C25: a workspace deletion leaves every issue stored as it was, and when it
\* answers 204 the workspace, and only the workspace, is gone
C25_IssuesStay ==
    last.op = "delete_workspace" =>
        /\ issues = last.pre[1].issues
        /\ workspaces = IF last.code = StatusNoContent
                        THEN last.pre[1].workspaces \ {last.req.id}
                        ELSE last.pre[1].workspaces

\* C25 happens: a workspace that had issues was deleted
C25_Witness ==
    /\ last.op = "delete_workspace"
    /\ last.code = StatusNoContent
    /\ last.req.id \notin workspaces
    /\ \E i \in DOMAIN issues : issues[i].workspace_id = last.req.id
    /\ \E i \in DOMAIN issues : issues[i].workspace_id # last.req.id

\* C26: an issue created without a status is stored with the status
\* "backlog", and one created with a status is stored with that status
C26_DefaultStatus ==
    Updated("post") =>
        PostRow.status = IF last.req.Status = "" THEN "backlog" ELSE last.req.Status

\* C26 happens: an issue was created without status while an issue created
\* with the status "done" is stored
C26_Witness ==
    /\ Updated("post")
    /\ last.req.Status = ""
    /\ PostRow.status = "backlog"
    /\ \E i \in DOMAIN issues : i # last.id /\ issues[i].status = "done"

----------------------------------------------------------------------------
(* Concurrent requests: net/http serves each request in its own goroutine,  *)
(* and the handlers hold no lock and open no transaction, so the repository *)
(* calls of different requests interleave                                   *)

\* the most handlers between two of their repository calls at a time
MaxInflight == 2

\* the sequence s without its k-th element
Without(s, k) == SubSeq(s, 1, k - 1) \o SubSeq(s, k + 1, Len(s))

\* a slot for one more handler is free
CanStart == Len(inflight) < MaxInflight

\* requests served concurrently: the creation of an issue with status todo,
\* a PUT that lists only estimate (a negative one), a PATCH to done
RacePosts == {[FullPost EXCEPT !.Status = "todo"]}

RacePuts == {[decodable |-> TRUE, body |-> Obj("estimate", JNumber(-30))]}

RacePatches == {[decodable |-> TRUE, Status |-> "done"]}

\* handleIssue PUT up to its call of Update: GetByID, the decoding of the
\* body and the assignments to the loaded struct
PutLoad(id, req) ==
    LET found == IssueGetByID(issues, id)
    IN  /\ UNCHANGED <<issues, workspaces, now>>
        /\ IF found = Null
           THEN last' = NotFound("put", id) /\ UNCHANGED inflight
           ELSE IF ~req.decodable
           THEN last' = Answer("put", id, req, StatusBadRequest) /\ UNCHANGED inflight
           ELSE IF LabelsPanic(req.body)
           THEN last' = Answer("put", id, req, Aborted) /\ UNCHANGED inflight
           ELSE /\ CanStart
                /\ inflight' = Append(inflight,
                                      [op |-> "put", id |-> id, req |-> req,
                                       issue |-> ApplyChanges(found[1], req.body)])
                /\ UNCHANGED last

\* handleIssue PUT from its call of Update: the UPDATE of the row with the
\* struct's id (of no row when the issue is gone) and the answer
PutWrite(k) ==
    LET h == inflight[k]
    IN  /\ h.op = "put"
        /\ \E t \in Ticks(now) :
              /\ now' = t
              /\ issues' = IssueUpdate(issues, h.issue, t)
              /\ last' = [op |-> "put", id |-> h.id, req |-> h.req,
                          pre |-> IF h.id \in DOMAIN issues
                                  THEN Some(issues[h.id]) ELSE Null,
                          code |-> StatusOK, t |-> t]
        /\ inflight' = Without(inflight, k)
        /\ UNCHANGED workspaces

\* handleIssue PATCH up to its call of UpdateStatus: GetByID and the decoding
PatchLoad(id, req) ==
    /\ UNCHANGED <<issues, workspaces, now>>
    /\ IF IssueGetByID(issues, id) = Null
       THEN last' = NotFound("patch", id) /\ UNCHANGED inflight
       ELSE IF ~req.decodable
       THEN last' = Answer("patch", id, req, StatusBadRequest) /\ UNCHANGED inflight
       ELSE /\ CanStart
            /\ inflight' = Append(inflight, [op |-> "patch", id |-> id, req |-> req])
            /\ UNCHANGED last

\* handleIssue PATCH from its call of UpdateStatus: the UPDATE, and GetByID
\* for the answer
PatchWrite(k) ==
    LET h == inflight[k]
    IN  /\ h.op = "patch"
        /\ \E t \in Ticks(now) :
              /\ now' = t
              /\ issues' = IssueUpdateStatus(issues, h.id, h.req.Status, t)
              /\ last' = [op |-> "patch", id |-> h.id, req |-> h.req,
                          pre |-> IF h.id \in DOMAIN issues
                                  THEN Some(issues[h.id]) ELSE Null,
                          code |-> StatusOK, t |-> t]
        /\ inflight' = Without(inflight, k)
        /\ UNCHANGED workspaces

\* handleMetrics up to its call of List: CountByStatus
MetricsCount(param) ==
    LET workspaceID == IF param = "" THEN "default" ELSE param
    IN  /\ CanStart
        /\ inflight' = Append(inflight,
                              [op |-> "metrics", param |-> param,
                               workspaceID |-> workspaceID,
                               statusCounts |-> CountByStatus(issues, workspaceID)])
        /\ UNCHANGED <<issues, workspaces, now, last>>

\* handleMetrics from its call of List: the two loops and the answer
MetricsList(k) ==
    LET h == inflight[k]
    IN  /\ h.op = "metrics"
        /\ \E list \in IssueList(issues, h.workspaceID) :
              last' = [op |-> "metrics", id |-> 0,
                       req |-> [workspace_id |-> h.param], pre |-> Null,
                       code |-> StatusOK, t |-> now,
                       listed |-> Len(list),
                       resp |-> MetricsResponse(h.workspaceID, h.statusCounts, list)]
        /\ inflight' = Without(inflight, k)
        /\ UNCHANGED <<issues, workspaces, now>>

RacePost == (\E req \in RacePosts : handleIssuesPost(req)) /\ UNCHANGED inflight

RaceDelete == (\E id \in DOMAIN issues : handleIssueDelete(id)) /\ UNCHANGED inflight

RacePutLoad == \E id \in DOMAIN issues : \E req \in RacePuts : PutLoad(id, req)

RacePutWrite == \E k \in DOMAIN inflight : PutWrite(k)

RacePatchLoad == \E id \in DOMAIN issues : \E req \in RacePatches : PatchLoad(id, req)

RacePatchWrite == \E k \in DOMAIN inflight : PatchWrite(k)

RaceMetricsCount == MetricsCount("")

RaceMetricsList == \E k \in DOMAIN inflight : MetricsList(k)

NextRace ==
    \/ RacePost
    \/ RaceDelete
    \/ RacePutLoad
    \/ RacePutWrite
    \/ RacePatchLoad
    \/ RacePatchWrite
    \/ RaceMetricsCount
    \/ RaceMetricsList

SpecRace == Init /\ [][NextRace]_vars

----------------------------------------------------------------------------
(* Properties of concurrent requests *)

\* C27: a PUT that does not list status leaves the status and completed_at
\* the row has when the PUT writes, so that the status a concurrent PATCH
\* wrote between the PUT's read and its write is the one stored in the end
C27_PutKeepsConcurrentStatus ==
    (/\ Updated("put")
     /\ "status" \notin DOMAIN last.req.body
     /\ last.pre # Null)
    => /\ PostRow.status = PreRow.status
       /\ PostRow.completed_at = PreRow.completed_at

\* C28: a metrics response counts in total_issues exactly the issues whose
\* estimates it summed, and reports a done issue whenever it reports
\* completed points
C28_OneSnapshot ==
    Measured /\ "listed" \in DOMAIN last =>
        /\ last.resp.total_issues = last.listed
        /\ last.resp.completed_points > 0 => last.resp.done_count > 0

\* the latest request was an update that loaded its issue before the issue
\* was deleted and wrote afterwards
WroteAfterDelete ==
    /\ last.op \in {"put", "patch"}
    /\ last.code = StatusOK
    /\ last.pre = Null

\* C29: every stored id is a clock reading of the past, and a step stores no
\* id of the past that is not stored already: an issue that was deleted is not
\* stored again, whichever update writes after the delete
C29_DeletedStaysDeleted ==
    /\ [](\A id \in DOMAIN issues : id <= now)
    /\ [][\A id \in DOMAIN issues' : id \in DOMAIN issues \/ id > now]_vars
    /\ [](WroteAfterDelete => IssueGetByID(issues, last.id) = Null)

\* C29 happens: a PUT that had loaded the issue wrote after its deletion,
\* while another issue is stored
C29_Witness ==
    /\ WroteAfterDelete
    /\ last.op = "put"
    /\ last.id \notin DOMAIN issues
    /\ issues # <<>>

\* C30: every stored estimate is non-negative, and every metrics response
\* has 0 <= completed_points <= total_points
C30_EstimatesNonNegative ==
    /\ \A id \in DOMAIN issues : issues[id].estimate >= 0
    /\ Measured =>
          /\ 0 <= last.resp.completed_points
          /\ last.resp.completed_points <= last.resp.total_points

====
